---- MODULE Spec2Model ----
(***************************************************************************)
(* Model of the iterative website recreation controller                    *)
(* (packages/agent/src/WebsiteRecreationService.ts) together with the      *)
(* metric computation of PixelDiffService.compareImages.                   *)
(*                                                                         *)
(* recreateWebsite is one long async function; every await in it is a      *)
(* step of the model.  A collaborator call or a file write either returns  *)
(* or rejects; a rejection inside the try block runs the catch clause.     *)
(* Scores are kept in hundredths of a percent (9200 is 92.00), which is    *)
(* the precision compareImages rounds its results to.                      *)
(***************************************************************************)
EXTENDS Integers, Sequences, FiniteSets, TLC

\* ---------------------------------------------------------------- bounds
\* largest maxIterations option explored
MaxK == 3
\* width * height of the (equal-dimension) screenshots
TotalPixels == 25000

\* the wall clock runs for MaxTime half seconds
MaxTime == 2
\* recreateWebsite calls running at once
NumSessions == 2
\* most items of a critique handed to formatCritiqueForRevision
MaxItems == 3

\* ------------------------------------------------------ program constants
\* PixelDiffService constructor default, the controller builds the service
\* without a config
DefaultPassThreshold == 92

\* DEFAULT_RETRY_CONFIG of APIResilience
DefaultMaxRetries == 3
DefaultInitialDelayMs == 1000
DefaultMaxDelayMs == 10000
DefaultBackoffMultiplier == 2

\* ------------------------------------------------------- input enumeration
\* options.pixelDiffThreshold values explored (92 is the default)
PixelThresholdChoices == {90, 92}
\* options.visionThreshold values explored (85 is the default)
VisionThresholdChoices == {85}
\* markup returned by the generator
HtmlChoices == {"h1", "h2"}
\* mismatched pixel counts pixelmatch may report: scores 95, 91.996 and 80
MismatchChoices == {1250, 2001, 5000}
\* outcomes of the opaque judge (GeminiService.compareImages)
VisionChoices ==
    { [pass |-> TRUE, score |-> 90, notes |-> "close"],
      [pass |-> FALSE, score |-> 80, notes |-> "off"] }

Item(p, e) ==
    [priority |-> p, category |-> "layout", element |-> e,
     issue |-> "differs", expected |-> "x", actual |-> "y"]

\* critiques the opaque critiquer (GeminiService.generateUICritique) returns
CritiqueChoices ==
    { [summary |-> "fine", totalIssues |-> 0, items |-> <<>>],
      [summary |-> "two", totalIssues |-> 2,
       items |-> <<Item("low", "nav"), Item("critical", "footer")>>] }

VARIABLES
    opts,            \* the option record built at the start of recreateWebsite
    pc,              \* position of the async function
    i,               \* loop counter of the iteration loop
    iterations,      \* RecreationIteration[] accumulated so far
    finalHTML,
    stopReason,
    errorMessage,    \* "" while undefined, else the step whose rejection was caught
    html,            \* markup of the iteration being built
    pixelDiffResult, \* <<>> or <<result>> of the current iteration
    visionResult,    \* <<>> or <<result>> of the current iteration
    files,           \* the artifact files written so far: name -> content
    calls,           \* log of collaborator calls, in call order
    summaryWrites,   \* the payloads handed to the summary.json write, one per attempt
    fsFailed,        \* some fs.mkdir or fs.writeFile call of the function rejected
    summaryFile,     \* <<>> or <<content of summary.json>>
    outcome,         \* "running", "returned" or "thrown"
    result,          \* <<>> or <<the RecreateWebsiteResult returned>>
    \* a PixelDiffService used directly, and sessions sharing one process
    passThreshold,   \* config.passThreshold of the service
    now,             \* the wall clock, in half seconds
    disk,            \* the files the service and the sessions see: path -> content
    compareLog,      \* the two most recent compareImages calls, oldest first
    sessions,        \* the concurrently running recreateWebsite calls
    \* the library functions when they are called on their own
    builder,         \* a formatCritiqueForRevision call: its argument and its value
    feedback,        \* the locals of a runFeedback call
    retry            \* the locals of an executeWithRetry call

\* the variables of recreateWebsite
ctlVars ==
    <<opts, pc, i, iterations, finalHTML, stopReason, errorMessage, html,
      pixelDiffResult, visionResult, files, calls, summaryWrites,
      fsFailed, summaryFile, outcome, result>>

\* the variables of the directly used service and of the concurrent sessions
svcVars == <<passThreshold, now, disk, compareLog, sessions>>

\* the variables of the library functions called on their own
libVars == <<builder, feedback, retry>>

vars == <<ctlVars, svcVars, libVars>>

\* ------------------------------------------------------------ file names
TargetPng == [kind |-> "target.png", n |-> 0]
IndexHtml == [kind |-> "index.html", n |-> 0]
IterationHtml(n) == [kind |-> "iteration.html", n |-> n]
IterationPng(n) == [kind |-> "iteration.png", n |-> n]
DiffPng(n) == [kind |-> "diff.png", n |-> n]

WriteFile(fs, name, content) ==
    [f \in DOMAIN fs \cup {name} |-> IF f = name THEN content ELSE fs[f]]

\* ------------------------------------------------- PixelDiffService metrics
\* cutting the digits after the second decimal instead of rounding
RoundHundredthsTruncated(num, den) == (100 * num) \div den

\* Math.round(x * 100) / 100 of the non-negative rational num/den, in hundredths
RoundHundredths(num, den) == (200 * num + den) \div (2 * den)

\* the tiers with exactly 5 percent still counted as good
NotesTierInclusive(m, total) ==
    IF m = 0 THEN "perfect"
    ELSE IF 100 * m < 1 * total THEN "excellent"
    ELSE IF 100 * m <= 5 * total THEN "good"
    ELSE IF 100 * m < 15 * total THEN "moderate"
    ELSE IF 100 * m < 40 * total THEN "significant"
    ELSE "very high mismatch"

\* the notes tier generateNotes selects for mismatchPixels / totalPixels * 100
NotesTier(m, total) ==
    IF m = 0 THEN "perfect"
    ELSE IF 100 * m < 1 * total THEN "excellent"
    ELSE IF 100 * m < 5 * total THEN "good"
    ELSE IF 100 * m < 15 * total THEN "moderate"
    ELSE IF 100 * m < 40 * total THEN "significant"
    ELSE "very high mismatch"

\* the text generateNotes builds: the tier sentence with the percentage printed
\* by toFixed(2) (none in the perfect tier; the good tier's icon follows pass),
\* then the score, threshold and status lines
GenerateNotes(m, total, threshold) ==
    [tier |-> NotesTier(m, total),
     difference |-> IF m = 0 THEN -1 ELSE RoundHundredths(100 * m, total),
     icon |-> IF NotesTier(m, total) = "good" /\ 100 * (total - m) < threshold * total
              THEN "warning" ELSE "by tier",
     score |-> RoundHundredths(100 * (total - m), total),
     passThreshold |-> threshold,
     status |-> 100 * (total - m) >= threshold * total]

\* a result that passes only above the threshold
CompareImagesResultStrictPass(m, total, threshold, path) ==
    [pass |-> 100 * (total - m) > threshold * total,
     score |-> RoundHundredths(100 * (total - m), total),
     mismatchPercent |-> RoundHundredths(100 * m, total),
     mismatchPixels |-> m,
     totalPixels |-> total,
     notes |-> GenerateNotes(m, total, threshold),
     diffImagePath |-> path]

\* a result whose notes also name the second the diff image was saved in
CompareImagesResultNotesWithPath(m, total, threshold, path) ==
    [pass |-> 100 * (total - m) >= threshold * total,
     score |-> RoundHundredths(100 * (total - m), total),
     mismatchPercent |-> RoundHundredths(100 * m, total),
     mismatchPixels |-> m,
     totalPixels |-> total,
     notes |-> [GenerateNotes(m, total, threshold) EXCEPT !.icon = path.stamp],
     diffImagePath |-> path]

\* the PixelDiffResult compareImages returns for m mismatched pixels of total,
\* with the diff image saved at path.  The arithmetic is exact; in IEEE doubles
\* a value that lies exactly on a half hundredth may round to either side.
CompareImagesResult(m, total, threshold, path) ==
    [pass |-> 100 * (total - m) >= threshold * total,
     score |-> RoundHundredths(100 * (total - m), total),
     mismatchPercent |-> RoundHundredths(100 * m, total),
     mismatchPixels |-> m,
     totalPixels |-> total,
     notes |-> GenerateNotes(m, total, threshold),
     diffImagePath |-> path]

\* ------------------------------------------- PixelDiffService used directly
\* a PNG of width * height pixels: the first `data` pixels are white, the
\* rest black
Image(w, h, data) == [width |-> w, height |-> h, data |-> data]

InputPath(name) == [dir |-> "images", stamp |-> 0, name |-> name]

\* new Date().toISOString().replace(/[:.]/g, '-').slice(0, -5): the ISO time
\* without its fraction of a second; the clock t counts half seconds
Timestamp(t) == t \div 2

\* <diffOutputDir>/<timestamp>__diff__<slug>.png
DiffPath(t, slug) ==
    [dir |-> "images/diffs", stamp |-> Timestamp(t), name |-> slug]

\* generateRunId: <timestamp>_recreation
generateRunId(t) == [stamp |-> Timestamp(t), suffix |-> "_recreation"]

\* the files of a run: <screenshots>/<runId>_target.png,
\* <recreated>/<runId>/iteration_1.html, <screenshots>/<runId>_iteration_1.png
\* and <runs>/<runId>/summary.json
TargetScreenshotPath(runId) ==
    [dir |-> "images/screenshots", stamp |-> runId.stamp, name |-> "target.png"]
IterationHtmlPath(runId) ==
    [dir |-> "docs/recreated", stamp |-> runId.stamp, name |-> "iteration_1.html"]
IterationScreenshotPath(runId) ==
    [dir |-> "images/screenshots", stamp |-> runId.stamp,
     name |-> "iteration_1.png"]
SummaryPath(runId) ==
    [dir |-> "references/runs", stamp |-> runId.stamp, name |-> "summary.json"]

\* the images the callers compare: a 200 x 200 target, an identical copy,
\* candidates that differ from it in 1, 2, 400, ... pixels, and a wider image
TargetChoices == {InputPath("target")}
CandidateChoices ==
    {InputPath("copy"), InputPath("c1"), InputPath("c2"), InputPath("c400"),
     InputPath("c2000"), InputPath("c3201"), InputPath("c6000"),
     InputPath("c16000"), InputPath("wide")}

InputImages ==
    [f \in TargetChoices \cup CandidateChoices |->
        CASE f.name = "target" -> Image(200, 200, 0)
          [] f.name = "copy" -> Image(200, 200, 0)
          [] f.name = "c1" -> Image(200, 200, 1)
          [] f.name = "c2" -> Image(200, 200, 2)
          [] f.name = "c400" -> Image(200, 200, 400)
          [] f.name = "c2000" -> Image(200, 200, 2000)
          [] f.name = "c3201" -> Image(200, 200, 3201)
          [] f.name = "c6000" -> Image(200, 200, 6000)
          [] f.name = "c16000" -> Image(200, 200, 16000)
          [] OTHER -> Image(250, 200, 0)]

\* slugs passed to compareImages; callers that repeat a comparison pass the
\* same slug again
SlugChoices == {"home"}
\* config.passThreshold handed to the constructor (92 when omitted)
ConstructorThresholdChoices == {DefaultPassThreshold, 100}
\* arguments of setPassThreshold
SetThresholdChoices == {0, 100, 101}

\* pixelmatch on two images of equal dimensions: the number of pixels that
\* differ
Pixelmatch(a, b) == IF a.data >= b.data THEN a.data - b.data ELSE b.data - a.data

\* one entry of the call log: threshold is config.passThreshold at the call,
\* error is "" for a call that returned its result, wrote is the set of files
\* the call wrote, fresh tells that none of them existed before the call
CompareEntry(t, c, slug, threshold, error, res, wrote, fresh) ==
    [target |-> t, candidate |-> c, slug |-> slug, threshold |-> threshold,
     error |-> error, result |-> res, wrote |-> wrote, fresh |-> fresh]

\* the log keeps the two most recent calls
Logged(log, e) == IF Len(log) < 2 THEN Append(log, e) ELSE <<log[2], e>>

\* --------------------------------------------------- revision context
ToUpperCase(s) ==
    CASE s = "critical" -> "CRITICAL"
      [] s = "high" -> "HIGH"
      [] s = "medium" -> "MEDIUM"
      [] s = "low" -> "LOW"
      [] OTHER -> s

NoIssuesSentence ==
    [kind |-> "Previous iteration had no specific issues identified.",
     total |-> 0, summary |-> "", entries |-> <<>>]

\* revisionContext is undefined
NoContext == [kind |-> "undefined", total |-> 0, summary |-> "", entries |-> <<>>]

FormatEntry(item, idx) ==
    [idx |-> idx, priority |-> ToUpperCase(item.priority), element |-> item.element,
     category |-> item.category, issue |-> item.issue,
     expected |-> item.expected, actual |-> item.actual]

\* the entries come out last item first
formatCritiqueReversed(c) ==
    IF c = <<>> \/ c[1].totalIssues = 0
    THEN NoIssuesSentence
    ELSE [kind |-> "ISSUES TO FIX", total |-> c[1].totalIssues,
          summary |-> c[1].summary,
          entries |-> [k \in 1..Len(c[1].items) |->
                         FormatEntry(c[1].items[Len(c[1].items) + 1 - k], k)]]

\* c is <<>> (no critique) or <<critique>>
formatCritiqueForRevision(c) ==
    IF c = <<>> \/ c[1].totalIssues = 0
    THEN NoIssuesSentence
    ELSE [kind |-> "ISSUES TO FIX", total |-> c[1].totalIssues,
          summary |-> c[1].summary,
          entries |-> [k \in 1..Len(c[1].items) |-> FormatEntry(c[1].items[k], k)]]

\* one index too far back: the critique of iteration n - 2
PreviousCritiqueOlder(its, n) ==
    IF (n - 2) \in 1..Len(its) THEN its[n - 2].critique
    ELSE IF (n - 1) \in 1..Len(its) THEN its[n - 1].critique ELSE <<>>

\* iterations[i - 2]?.critique of the 0-based array, for loop counter n
PreviousCritique(its, n) ==
    IF (n - 1) \in 1..Len(its) THEN its[n - 1].critique ELSE <<>>

RevisionContext(its, n) ==
    IF PreviousCritique(its, n) # <<>>
    THEN formatCritiqueForRevision(PreviousCritique(its, n))
    ELSE NoContext

\* the critiques formatCritiqueForRevision is called with on its own: none,
\* or a critique of up to MaxItems items whose totalIssues is the number of
\* its items
PriorityChoices == {"critical", "high", "medium", "low"}
ElementChoices == {"nav", "footer"}
ItemChoices == {Item(p, e) : p \in PriorityChoices, e \in ElementChoices}

ItemSequences == UNION {[1..n -> ItemChoices] : n \in 0..MaxItems}

CritiqueInputs ==
    {<<>>} \cup
    {<<[summary |-> "summary", totalIssues |-> Len(items), items |-> items]>> :
        items \in ItemSequences}

\* ------------------------------------------------------ controller logic
\* off by one: the loop body is entered once more
LoopConditionOffByOne(n, o) == n <= o.maxIterations + 1

\* the loop condition i <= opts.maxIterations
LoopCondition(n, o) == n <= o.maxIterations

\* the judge's score is left out of the gate
BothPassPixelOnly(pix, vis, o) == pix.score >= o.pixelDiffThreshold * 100

\* the controller has no option that switches the judge off: it is called and
\* its score is gated in every iteration
JudgeDisabled == FALSE

\* bothPass; the pixel score is in hundredths
BothPass(pix, vis, o) ==
    /\ pix.score >= o.pixelDiffThreshold * 100
    /\ vis.score >= o.visionThreshold

\* the critique is also requested in the last allowed iteration
CritiqueBranchInclusive(n, o) == n <= o.maxIterations

\* the else-if branch that asks for a critique
CritiqueBranch(n, o) == n < o.maxIterations

\* the record is numbered with the 0-based index
IterationRecordZeroBased(n, h, pix, vis) ==
    [iteration |-> n - 1, html |-> h, screenshotPath |-> IterationPng(n),
     pixelDiff |-> [pass |-> pix.pass, score |-> pix.score,
                    mismatchPercent |-> pix.mismatchPercent,
                    diffImagePath |-> pix.diffImagePath],
     vision |-> vis,
     critique |-> <<>>]

\* the iteration record built before the decision
IterationRecord(n, h, pix, vis) ==
    [iteration |-> n, html |-> h, screenshotPath |-> IterationPng(n),
     pixelDiff |-> [pass |-> pix.pass, score |-> pix.score,
                    mismatchPercent |-> pix.mismatchPercent,
                    diffImagePath |-> pix.diffImagePath],
     vision |-> vis,
     critique |-> <<>>]

Call(name, n, ctx, ok) == [name |-> name, iter |-> n, ctx |-> ctx, ok |-> ok]

\* success is reported for every stop reason but error
BuildResultSuccessUnlessError ==
    [success |-> stopReason # "error",
     finalHTML |-> finalHTML,
     iterations |-> iterations,
     totalIterations |-> Len(iterations),
     finalScores |->
        IF iterations = <<>> THEN [pixelDiff |-> 0, vision |-> 0]
        ELSE [pixelDiff |-> iterations[Len(iterations)].pixelDiff.score,
              vision |-> iterations[Len(iterations)].vision.score],
     stopReason |-> stopReason,
     errorMessage |-> errorMessage]

\* the RecreateWebsiteResult assembled after the try/catch
BuildResult ==
    [success |-> stopReason = "success",
     finalHTML |-> finalHTML,
     iterations |-> iterations,
     totalIterations |-> Len(iterations),
     finalScores |->
        IF iterations = <<>> THEN [pixelDiff |-> 0, vision |-> 0]
        ELSE [pixelDiff |-> iterations[Len(iterations)].pixelDiff.score,
              vision |-> iterations[Len(iterations)].vision.score],
     stopReason |-> stopReason,
     errorMessage |-> errorMessage]

\* no service is used directly and no other session runs
ServiceIdle ==
    /\ passThreshold = DefaultPassThreshold
    /\ now = 0
    /\ disk = InputImages
    /\ compareLog = <<>>
    /\ sessions = <<>>

\* no library function is being called on its own
LibIdle ==
    /\ builder = [pc |-> "idle"]
    /\ feedback = [pc |-> "idle"]
    /\ retry = [pc |-> "idle"]

Init ==
    /\ ServiceIdle
    /\ LibIdle
    /\ opts \in [maxIterations : 1..MaxK,
                 pixelDiffThreshold : PixelThresholdChoices,
                 visionThreshold : VisionThresholdChoices]
    /\ pc = "mkdir"
    /\ i = 0
    /\ iterations = <<>>
    /\ finalHTML = ""
    /\ stopReason = "max_iterations"
    /\ errorMessage = ""
    /\ html = ""
    /\ pixelDiffResult = <<>>
    /\ visionResult = <<>>
    /\ files = [f \in {} |-> ""]
    /\ calls = <<>>
    /\ summaryWrites = <<>>
    /\ fsFailed = FALSE
    /\ summaryFile = <<>>
    /\ outcome = "running"
    /\ result = <<>>

\* the catch clause: stopReason = 'error', errorMessage = the rejection
Catch(step) ==
    /\ stopReason' = "error"
    /\ errorMessage' = step
    /\ pc' = "finalize"

\* the loop body starts with the target capture
LoopHeadRecapture(n) ==
    /\ i' = n
    /\ pc' = IF LoopCondition(n, opts)
             THEN (IF n > 1 THEN "captureTarget" ELSE "generate")
             ELSE "finalize"

\* for (...; i <= opts.maxIterations; ...): enter the body or leave the loop
LoopHead(n) ==
    /\ i' = n
    /\ pc' = IF LoopCondition(n, opts) THEN "generate" ELSE "finalize"

\* the four fs.mkdir calls before the try block; a rejection leaves the function
MakeDirs ==
    /\ pc = "mkdir"
    /\ \/ /\ pc' = "captureTarget"
          /\ UNCHANGED <<outcome, fsFailed>>
       \/ /\ pc' = "done"
          /\ outcome' = "thrown"
          /\ fsFailed' = TRUE
    /\ UNCHANGED <<opts, i, iterations, finalHTML, stopReason, errorMessage, html,
                   pixelDiffResult, visionResult, files, calls, summaryWrites,
                   summaryFile, result>>
    /\ UNCHANGED <<svcVars, libVars>>

\* a failed target capture is swallowed and the loop is entered anyway
CaptureTargetSwallowed ==
    /\ pc = "captureTarget"
    /\ \/ /\ calls' = Append(calls, Call("captureTarget", 0, NoContext, TRUE))
          /\ \/ /\ files' = WriteFile(files, TargetPng, "png")
                /\ LoopHead(1)
                /\ UNCHANGED <<stopReason, errorMessage, fsFailed>>
             \/ /\ Catch("writeTarget")
                /\ fsFailed' = TRUE
                /\ UNCHANGED <<files, i>>
       \/ /\ calls' = Append(calls, Call("captureTarget", 0, NoContext, FALSE))
          /\ LoopHead(1)
          /\ UNCHANGED <<files, stopReason, errorMessage, fsFailed>>
    /\ UNCHANGED <<opts, iterations, finalHTML, html, pixelDiffResult, visionResult,
                   summaryWrites, summaryFile, outcome, result>>
    /\ UNCHANGED <<svcVars, libVars>>

\* Step 1: captureScreenshot of the target, then the write of <runId>_target.png
CaptureTarget ==
    /\ pc = "captureTarget"
    /\ \/ /\ calls' = Append(calls, Call("captureTarget", 0, NoContext, TRUE))
          /\ \/ /\ files' = WriteFile(files, TargetPng, "png")
                /\ LoopHead(1)
                /\ UNCHANGED <<stopReason, errorMessage, fsFailed>>
             \/ /\ Catch("writeTarget")
                /\ fsFailed' = TRUE
                /\ UNCHANGED <<files, i>>
       \/ /\ calls' = Append(calls, Call("captureTarget", 0, NoContext, FALSE))
          /\ Catch("captureTarget")
          /\ UNCHANGED <<files, i, fsFailed>>
    /\ UNCHANGED <<opts, iterations, finalHTML, html, pixelDiffResult, visionResult,
                   summaryWrites, summaryFile, outcome, result>>
    /\ UNCHANGED <<svcVars, libVars>>

\* Step 2: generateHTMLFromScreenshot with the revision context
Generate ==
    /\ pc = "generate"
    /\ \/ \E h \in HtmlChoices :
            /\ calls' = Append(calls, Call("generate", i, RevisionContext(iterations, i), TRUE))
            /\ html' = h
            /\ pc' = "saveHtml"
            /\ UNCHANGED <<stopReason, errorMessage>>
       \/ /\ calls' = Append(calls, Call("generate", i, RevisionContext(iterations, i), FALSE))
          /\ Catch("generate")
          /\ UNCHANGED html
    /\ UNCHANGED <<fsFailed, opts, i, iterations, finalHTML, pixelDiffResult, visionResult,
                   files, summaryWrites, summaryFile, outcome, result>>
    /\ UNCHANGED <<svcVars, libVars>>

\* write iteration_<i>.html and, in the last allowed iteration, index.html
SaveHtml ==
    /\ pc = "saveHtml"
    /\ \/ /\ Catch("writeIterationHtml")
          /\ fsFailed' = TRUE
          /\ UNCHANGED files
       \/ /\ i = opts.maxIterations
          /\ files' = WriteFile(files, IterationHtml(i), html)
          /\ Catch("writeIndexHtml")
          /\ fsFailed' = TRUE
       \/ /\ files' = IF i = opts.maxIterations
                      THEN WriteFile(WriteFile(files, IterationHtml(i), html), IndexHtml, html)
                      ELSE WriteFile(files, IterationHtml(i), html)
          /\ pc' = "captureCandidate"
          /\ UNCHANGED <<stopReason, errorMessage, fsFailed>>
    /\ UNCHANGED <<opts, i, iterations, finalHTML, html, pixelDiffResult, visionResult,
                   calls, summaryWrites, summaryFile, outcome, result>>
    /\ UNCHANGED <<svcVars, libVars>>

\* Step 3: screenshotHTML; it rejects before or after its own file write
CaptureCandidate ==
    /\ pc = "captureCandidate"
    /\ \/ /\ calls' = Append(calls, Call("captureCandidate", i, NoContext, TRUE))
          /\ files' = WriteFile(files, IterationPng(i), "png")
          /\ pc' = "pixelDiff"
          /\ UNCHANGED <<stopReason, errorMessage>>
       \/ /\ calls' = Append(calls, Call("captureCandidate", i, NoContext, FALSE))
          /\ files' \in {files, WriteFile(files, IterationPng(i), "png")}
          /\ Catch("captureCandidate")
    /\ UNCHANGED <<fsFailed, opts, i, iterations, finalHTML, html, pixelDiffResult, visionResult,
                   summaryWrites, summaryFile, outcome, result>>
    /\ UNCHANGED <<svcVars, libVars>>

\* a failed comparison is turned into a zero score instead of ending the session
PixelDiffFailureAsLowScore ==
    /\ pc = "pixelDiff"
    /\ \/ \E m \in MismatchChoices :
            /\ calls' = Append(calls, Call("pixelDiff", i, NoContext, TRUE))
            /\ pixelDiffResult' = <<CompareImagesResult(m, TotalPixels, DefaultPassThreshold, DiffPng(i))>>
            /\ files' = WriteFile(files, DiffPng(i), "png")
       \/ /\ calls' = Append(calls, Call("pixelDiff", i, NoContext, FALSE))
          /\ pixelDiffResult' = <<CompareImagesResult(TotalPixels, TotalPixels, DefaultPassThreshold, DiffPng(i))>>
          /\ UNCHANGED files
    /\ pc' = "vision"
    /\ UNCHANGED <<fsFailed, opts, i, iterations, finalHTML, html, visionResult,
                   stopReason, errorMessage, summaryWrites, summaryFile, outcome, result>>
    /\ UNCHANGED <<svcVars, libVars>>

\* Step 4a: PixelDiffService.compareImages; it rejects on unreadable images,
\* on a dimension mismatch and on a failed diff write
PixelDiff ==
    /\ pc = "pixelDiff"
    /\ \/ \E m \in MismatchChoices :
            /\ calls' = Append(calls, Call("pixelDiff", i, NoContext, TRUE))
            /\ pixelDiffResult' = <<CompareImagesResult(m, TotalPixels, DefaultPassThreshold, DiffPng(i))>>
            /\ files' = WriteFile(files, DiffPng(i), "png")
            /\ pc' = "vision"
            /\ UNCHANGED <<stopReason, errorMessage>>
       \/ /\ calls' = Append(calls, Call("pixelDiff", i, NoContext, FALSE))
          /\ Catch("pixelDiff")
          /\ UNCHANGED <<pixelDiffResult, files>>
    /\ UNCHANGED <<fsFailed, opts, i, iterations, finalHTML, html, visionResult,
                   summaryWrites, summaryFile, outcome, result>>
    /\ UNCHANGED <<svcVars, libVars>>

\* Step 4b: the judge, GeminiService.compareImages
Vision ==
    /\ pc = "vision"
    /\ \/ \E v \in VisionChoices :
            /\ calls' = Append(calls, Call("vision", i, NoContext, TRUE))
            /\ visionResult' = <<v>>
            /\ pc' = "decide"
            /\ UNCHANGED <<stopReason, errorMessage>>
       \/ /\ calls' = Append(calls, Call("vision", i, NoContext, FALSE))
          /\ Catch("vision")
          /\ UNCHANGED visionResult
    /\ UNCHANGED <<fsFailed, opts, i, iterations, finalHTML, html, pixelDiffResult, files,
                   summaryWrites, summaryFile, outcome, result>>
    /\ UNCHANGED <<svcVars, libVars>>

\* the pass branch does not write index.html
DecideSuccessNoIndex ==
    /\ pc = "decide"
    /\ BothPass(pixelDiffResult[1], visionResult[1], opts)
    /\ finalHTML' = html
    /\ iterations' = Append(iterations, IterationRecord(i, html, pixelDiffResult[1], visionResult[1]))
    /\ stopReason' = "success"
    /\ pc' = "finalize"
    /\ UNCHANGED <<opts, i, html, pixelDiffResult, visionResult, calls, files,
                   errorMessage, fsFailed, summaryWrites, summaryFile, outcome, result>>
    /\ UNCHANGED <<svcVars, libVars>>

\* the break is missing: the loop goes on after a passing iteration
DecideSuccessNoBreak ==
    /\ pc = "decide"
    /\ BothPass(pixelDiffResult[1], visionResult[1], opts)
    /\ finalHTML' = html
    /\ iterations' = Append(iterations, IterationRecord(i, html, pixelDiffResult[1], visionResult[1]))
    /\ \/ /\ files' = WriteFile(files, IndexHtml, html)
          /\ stopReason' = "success"
          /\ LoopHead(i + 1)
          /\ UNCHANGED <<errorMessage, fsFailed>>
       \/ /\ Catch("writeIndexHtml")
          /\ fsFailed' = TRUE
          /\ UNCHANGED <<files, i>>
    /\ UNCHANGED <<opts, html, pixelDiffResult, visionResult, calls,
                   summaryWrites, summaryFile, outcome, result>>
    /\ UNCHANGED <<svcVars, libVars>>

\* Step 5, pass branch: record the iteration, write index.html, break
DecideSuccess ==
    /\ pc = "decide"
    /\ BothPass(pixelDiffResult[1], visionResult[1], opts)
    /\ finalHTML' = html
    /\ iterations' = Append(iterations, IterationRecord(i, html, pixelDiffResult[1], visionResult[1]))
    /\ \/ /\ files' = WriteFile(files, IndexHtml, html)
          /\ stopReason' = "success"
          /\ pc' = "finalize"
          /\ UNCHANGED <<errorMessage, fsFailed>>
       \/ /\ Catch("writeIndexHtml")
          /\ fsFailed' = TRUE
          /\ UNCHANGED files
    /\ UNCHANGED <<opts, i, html, pixelDiffResult, visionResult, calls,
                   summaryWrites, summaryFile, outcome, result>>
    /\ UNCHANGED <<svcVars, libVars>>

\* Step 5, failing iteration with iterations remaining: go and ask for a critique
DecideCritique ==
    /\ pc = "decide"
    /\ ~BothPass(pixelDiffResult[1], visionResult[1], opts)
    /\ CritiqueBranch(i, opts)
    /\ pc' = "critique"
    /\ UNCHANGED <<fsFailed, opts, i, iterations, finalHTML, stopReason, errorMessage, html,
                   pixelDiffResult, visionResult, files, calls, summaryWrites,
                   summaryFile, outcome, result>>
    /\ UNCHANGED <<svcVars, libVars>>

\* Step 5, failing last iteration: record it and let the loop run out
DecideExhausted ==
    /\ pc = "decide"
    /\ ~BothPass(pixelDiffResult[1], visionResult[1], opts)
    /\ ~CritiqueBranch(i, opts)
    /\ iterations' = Append(iterations, IterationRecord(i, html, pixelDiffResult[1], visionResult[1]))
    /\ finalHTML' = html
    /\ LoopHead(i + 1)
    /\ UNCHANGED <<fsFailed, opts, stopReason, errorMessage, html, pixelDiffResult, visionResult,
                   files, calls, summaryWrites, summaryFile, outcome, result>>
    /\ UNCHANGED <<svcVars, libVars>>

\* finalHTML is not updated when a revised iteration is recorded
CritiqueKeepsFinalHTML ==
    /\ pc = "critique"
    /\ \/ \E c \in CritiqueChoices :
            /\ calls' = Append(calls, Call("critique", i, NoContext, TRUE))
            /\ iterations' = Append(iterations,
                  [IterationRecord(i, html, pixelDiffResult[1], visionResult[1])
                     EXCEPT !.critique = <<c>>])
            /\ LoopHead(i + 1)
            /\ UNCHANGED <<stopReason, errorMessage, finalHTML>>
       \/ /\ calls' = Append(calls, Call("critique", i, NoContext, FALSE))
          /\ Catch("critique")
          /\ UNCHANGED <<i, iterations, finalHTML>>
    /\ UNCHANGED <<fsFailed, opts, html, pixelDiffResult, visionResult, files,
                   summaryWrites, summaryFile, outcome, result>>
    /\ UNCHANGED <<svcVars, libVars>>

\* generateUICritique inside the try block, then the push of the iteration
Critique ==
    /\ pc = "critique"
    /\ \/ \E c \in CritiqueChoices :
            /\ calls' = Append(calls, Call("critique", i, NoContext, TRUE))
            /\ iterations' = Append(iterations,
                  [IterationRecord(i, html, pixelDiffResult[1], visionResult[1])
                     EXCEPT !.critique = <<c>>])
            /\ finalHTML' = html
            /\ LoopHead(i + 1)
            /\ UNCHANGED <<stopReason, errorMessage>>
       \/ /\ calls' = Append(calls, Call("critique", i, NoContext, FALSE))
          /\ Catch("critique")
          /\ UNCHANGED <<i, iterations, finalHTML>>
    /\ UNCHANGED <<fsFailed, opts, html, pixelDiffResult, visionResult, files,
                   summaryWrites, summaryFile, outcome, result>>
    /\ UNCHANGED <<svcVars, libVars>>

\* the summary write sits inside the try block: it is skipped after an error
FinalizeNoSummaryOnError ==
    /\ pc = "finalize"
    /\ pc' = "done"
    /\ \/ /\ stopReason = "error"
          /\ result' = <<BuildResult>>
          /\ outcome' = "returned"
          /\ UNCHANGED <<summaryWrites, summaryFile, fsFailed>>
       \/ /\ stopReason # "error"
          /\ summaryWrites' = Append(summaryWrites, BuildResult)
          /\ \/ /\ summaryFile' = <<BuildResult>>
                /\ result' = <<BuildResult>>
                /\ outcome' = "returned"
                /\ UNCHANGED fsFailed
             \/ /\ outcome' = "thrown"
                /\ fsFailed' = TRUE
                /\ UNCHANGED <<summaryFile, result>>
    /\ UNCHANGED <<opts, i, iterations, finalHTML, stopReason, errorMessage, html,
                   pixelDiffResult, visionResult, files, calls>>
    /\ UNCHANGED <<svcVars, libVars>>

\* after the try/catch: build the result, write summary.json, return
Finalize ==
    /\ pc = "finalize"
    /\ summaryWrites' = Append(summaryWrites, BuildResult)
    /\ pc' = "done"
    /\ \/ /\ summaryFile' = <<BuildResult>>
          /\ result' = <<BuildResult>>
          /\ outcome' = "returned"
          /\ UNCHANGED fsFailed
       \/ /\ outcome' = "thrown"
          /\ fsFailed' = TRUE
          /\ UNCHANGED <<summaryFile, result>>
    /\ UNCHANGED <<opts, i, iterations, finalHTML, stopReason, errorMessage, html,
                   pixelDiffResult, visionResult, files, calls>>
    /\ UNCHANGED <<svcVars, libVars>>

\* ------------------------------------------- PixelDiffService used directly
\* the clock moves on by half a second
Tick ==
    /\ now < MaxTime
    /\ now' = now + 1
    /\ UNCHANGED <<passThreshold, disk, compareLog, sessions, ctlVars, libVars>>

\* setPassThreshold: values outside 0..100 are rejected and change nothing
SetPassThreshold ==
    /\ \E t \in SetThresholdChoices :
          passThreshold' = IF t < 0 \/ t > 100 THEN passThreshold ELSE t
    /\ UNCHANGED <<now, disk, compareLog, sessions, ctlVars, libVars>>

\* the diff PNG compareImages allocates: as large as the inputs
DiffImage(a) == Image(a.width, a.height, -1)

\* the tail of compareImages once the dimensions are settled: run pixelmatch,
\* compute the metrics and the notes, save the diff image (the write may
\* reject), return the result
CompareAndSave(t, c, slug) ==
    LET a == disk[t]
        b == disk[c]
        path == DiffPath(now, slug)
        res == CompareImagesResult(Pixelmatch(a, b), a.width * a.height,
                                   passThreshold, path)
    IN  \/ /\ disk' = WriteFile(disk, path, DiffImage(a))
           /\ compareLog' = Logged(compareLog,
                  CompareEntry(t, c, slug, passThreshold, "", <<res>>, {path},
                               path \notin DOMAIN disk))
        \/ /\ compareLog' = Logged(compareLog,
                  CompareEntry(t, c, slug, passThreshold, "write", <<>>, {}, TRUE))
           /\ UNCHANGED disk

\* compareImages that goes on to pixelmatch whatever the dimensions are
CompareImagesUnchecked ==
    /\ \E t \in TargetChoices, c \in CandidateChoices, slug \in SlugChoices :
          CompareAndSave(t, c, slug)
    /\ UNCHANGED <<passThreshold, now, sessions, ctlVars, libVars>>

\* compareImages(target, candidate, slug): read both PNGs, reject unequal
\* dimensions, then compare and save
CompareImages ==
    /\ \E t \in TargetChoices, c \in CandidateChoices, slug \in SlugChoices :
          IF disk[t].width # disk[c].width \/ disk[t].height # disk[c].height
          THEN /\ compareLog' = Logged(compareLog,
                      CompareEntry(t, c, slug, passThreshold, "dimension", <<>>,
                                   {}, TRUE))
               /\ UNCHANGED disk
          ELSE CompareAndSave(t, c, slug)
    /\ UNCHANGED <<passThreshold, now, sessions, ctlVars, libVars>>

\* ------------------------------------------------ concurrent sessions
\* session s writes its own content to path: the file is replaced, and the
\* session notes whether it replaced a file another session had written
SessionWrite(s, path, what, nextPc) ==
    /\ disk' = WriteFile(disk, path, [session |-> s, what |-> what])
    /\ sessions' = [sessions EXCEPT
          ![s] = [pc |-> nextPc, runId |-> @.runId, wrote |-> @.wrote \cup {path},
                  overwrote |-> \/ @.overwrote
                                \/ /\ path \in DOMAIN disk
                                   /\ disk[path].session # s]]

\* recreateWebsite begins: options.runId is absent, so the run id is generated
\* from the clock; the mkdir calls create directories only
SessionStart ==
    /\ \E s \in DOMAIN sessions :
          /\ sessions[s].pc = "new"
          /\ sessions' = [sessions EXCEPT
                ![s] = [pc |-> "target", runId |-> <<generateRunId(now)>>,
                        wrote |-> {}, overwrote |-> FALSE]]
    /\ UNCHANGED <<passThreshold, now, disk, compareLog, ctlVars, libVars>>

SessionSaveTarget ==
    /\ \E s \in DOMAIN sessions :
          /\ sessions[s].pc = "target"
          /\ SessionWrite(s, TargetScreenshotPath(sessions[s].runId[1]),
                          "target", "html")
    /\ UNCHANGED <<passThreshold, now, compareLog, ctlVars, libVars>>

SessionSaveHtml ==
    /\ \E s \in DOMAIN sessions :
          /\ sessions[s].pc = "html"
          /\ SessionWrite(s, IterationHtmlPath(sessions[s].runId[1]),
                          "html", "screenshot")
    /\ UNCHANGED <<passThreshold, now, compareLog, ctlVars, libVars>>

SessionSaveScreenshot ==
    /\ \E s \in DOMAIN sessions :
          /\ sessions[s].pc = "screenshot"
          /\ SessionWrite(s, IterationScreenshotPath(sessions[s].runId[1]),
                          "screenshot", "summary")
    /\ UNCHANGED <<passThreshold, now, compareLog, ctlVars, libVars>>

SessionSaveSummary ==
    /\ \E s \in DOMAIN sessions :
          /\ sessions[s].pc = "summary"
          /\ SessionWrite(s, SummaryPath(sessions[s].runId[1]), "summary", "done")
    /\ UNCHANGED <<passThreshold, now, compareLog, ctlVars, libVars>>

\* ------------------------------------- formatCritiqueForRevision on its own
\* the call returns the text built from its argument
FormatCritique ==
    /\ builder.pc = "called"
    /\ builder' = [pc |-> "returned", critique |-> builder.critique,
                   context |-> formatCritiqueForRevision(builder.critique)]
    /\ UNCHANGED <<feedback, retry, svcVars, ctlVars>>

\* ------------------------------------------------- runFeedback on its own
\* what a rejected generateUICritique leaves in visionCritiqueError: the
\* message of an Error, or the fixed text for any other thrown value
CritiqueErrorChoices ==
    {"Vision critique failed: <message>", "Vision critique failed with unknown error"}

\* the locals of runFeedback once the comparison has returned r
FeedbackCompared(r, percent, method) ==
    [feedback EXCEPT
        !.pc = IF feedback.opts.includeVisionCritique THEN "critique" ELSE "saveJson",
        !.pass = r.pass, !.score = r.score, !.notes = r.notes,
        !.mismatchPercent = percent, !.method = method,
        !.compared = <<[pass |-> r.pass, score |-> r.score, mismatchPercent |-> percent]>>]

\* the comparison: PixelDiffService.compareImages built with opts.passThreshold,
\* or the judge when usePixelDiff is false; a rejection leaves runFeedback
FeedbackCompare ==
    /\ feedback.pc = "compare"
    /\ \/ /\ feedback.opts.usePixelDiff
          /\ \E m \in MismatchChoices :
                LET r == CompareImagesResult(m, TotalPixels, feedback.opts.passThreshold,
                                             DiffPath(now, "home"))
                IN  feedback' = FeedbackCompared(r, <<r.mismatchPercent>>, "pixel-diff")
       \/ /\ ~feedback.opts.usePixelDiff
          /\ \E v \in VisionChoices :
                feedback' = FeedbackCompared(v, <<>>, "gemini-ai")
       \/ feedback' = [feedback EXCEPT !.pc = "done", !.outcome = "thrown",
                                        !.cause = "compare"]
    /\ UNCHANGED <<builder, retry, svcVars, ctlVars>>

\* a rejected critique call leaves runFeedback like any other rejection
FeedbackCritiqueRethrows ==
    /\ feedback.pc = "critique"
    /\ \/ \E c \in CritiqueChoices :
            feedback' = [feedback EXCEPT !.pc = "saveJson", !.visionCritique = <<c>>]
       \/ feedback' = [feedback EXCEPT !.pc = "done", !.outcome = "thrown",
                                        !.cause = "critique"]
    /\ UNCHANGED <<builder, retry, svcVars, ctlVars>>

\* includeVisionCritique: new GeminiService() and generateUICritique inside a
\* try whose catch only fills visionCritiqueError
FeedbackCritique ==
    /\ feedback.pc = "critique"
    /\ \/ \E c \in CritiqueChoices :
            feedback' = [feedback EXCEPT !.pc = "saveJson", !.visionCritique = <<c>>]
       \/ \E e \in CritiqueErrorChoices :
            feedback' = [feedback EXCEPT !.pc = "saveJson",
                                         !.visionCritiqueError = <<e>>]
    /\ UNCHANGED <<builder, retry, svcVars, ctlVars>>

\* fs.mkdir and the write of the JSON feedback file; a rejection leaves
\* runFeedback
FeedbackSaveJson ==
    /\ feedback.pc = "saveJson"
    /\ \/ feedback' = [feedback EXCEPT
              !.pc = "saveMarkdown",
              !.saved = <<[pass |-> feedback.pass, score |-> feedback.score,
                           mismatchPercent |-> feedback.mismatchPercent,
                           visionCritique |-> feedback.visionCritique,
                           visionCritiqueError |-> feedback.visionCritiqueError]>>]
       \/ feedback' = [feedback EXCEPT !.pc = "done", !.outcome = "thrown",
                                        !.cause = "writeJson"]
    /\ UNCHANGED <<builder, retry, svcVars, ctlVars>>

\* the write of the markdown file, then the return of the FeedbackResult
FeedbackSaveMarkdown ==
    /\ feedback.pc = "saveMarkdown"
    /\ \/ feedback' = [feedback EXCEPT
              !.pc = "done", !.outcome = "returned",
              !.result = <<[pass |-> feedback.pass, score |-> feedback.score,
                            notes |-> feedback.notes,
                            mismatchPercent |-> feedback.mismatchPercent,
                            method |-> feedback.method,
                            visionCritique |-> feedback.visionCritique,
                            visionCritiqueError |-> feedback.visionCritiqueError]>>]
       \/ feedback' = [feedback EXCEPT !.pc = "done", !.outcome = "thrown",
                                        !.cause = "writeMarkdown"]
    /\ UNCHANGED <<builder, retry, svcVars, ctlVars>>

\* --------------------------------------------- executeWithRetry on its own
\* what the wrapped operation rejects with: code is error.code, status the
\* HTTP status (0 for none), words the keywords the message contains
ThrownError(code, status, words) ==
    [isAPIError |-> FALSE, code |-> code, status |-> status, words |-> words,
     category |-> "", retryable |-> FALSE]

ErrorChoices ==
    {ThrownError("ECONNRESET", 0, {}),
     ThrownError("", 429, {}),
     ThrownError("", 401, {}),
     ThrownError("", 402, {"quota"}),
     ThrownError("", 400, {}),
     ThrownError("", 503, {}),
     ThrownError("", 503, {"invalid"}),
     ThrownError("", 404, {})}

\* new APIError(message, category, statusCode, retryable)
APIError(category, status, retryable) ==
    [isAPIError |-> TRUE, code |-> "", status |-> status, words |-> {},
     category |-> category, retryable |-> retryable]

\* the error the timer of withTimeout rejects with
TimeoutError == APIError("TIMEOUT", 0, TRUE)

\* categorizeError: the tests are made in this order
categorizeError(e) ==
    IF e.isAPIError THEN e
    ELSE IF \/ e.code \in {"ENOTFOUND", "ECONNREFUSED", "ECONNRESET", "ETIMEDOUT"}
            \/ "network" \in e.words
            \/ "connect" \in e.words
         THEN APIError("NETWORK", e.status, TRUE)
    ELSE IF e.status = 429 \/ "rate limit" \in e.words
         THEN APIError("RATE_LIMIT", 429, TRUE)
    ELSE IF e.status = 401 \/ e.status = 403 \/ "unauthorized" \in e.words
         THEN APIError("AUTH", e.status, FALSE)
    ELSE IF e.status = 402 \/ "quota" \in e.words
         THEN APIError("QUOTA_EXCEEDED", e.status, FALSE)
    ELSE IF e.status = 400 \/ "invalid" \in e.words
         THEN APIError("INVALID_REQUEST", 400, FALSE)
    ELSE IF e.status # 0 /\ e.status >= 500
         THEN APIError("SERVER_ERROR", e.status, TRUE)
    ELSE APIError("UNKNOWN", e.status, FALSE)

\* Math.pow(b, n) for a natural n
RECURSIVE Pow(_, _)
Pow(b, n) == IF n = 0 THEN 1 ELSE b * Pow(b, n - 1)

\* the backoff delay before the retry that follows attempt n
Delay(n) ==
    IF DefaultInitialDelayMs * Pow(DefaultBackoffMultiplier, n) < DefaultMaxDelayMs
    THEN DefaultInitialDelayMs * Pow(DefaultBackoffMultiplier, n)
    ELSE DefaultMaxDelayMs

\* the loop head: attempt <= maxRetries holds whenever it is reached, fn() is
\* called and raced against the timer
RetryInvoke ==
    /\ retry.pc = "loop"
    /\ retry.attempt <= DefaultMaxRetries
    /\ retry' = [retry EXCEPT !.pc = "await",
                               !.invocations = @ + 1,
                               !.inFlight = @ \cup {retry.attempt}]
    /\ UNCHANGED <<builder, feedback, svcVars, ctlVars>>

\* the catch clause: throw the categorised error, or sleep and go round again
RetryCatch(apiError, pending) ==
    retry' =
        IF ~apiError.retryable \/ retry.attempt = DefaultMaxRetries
        THEN [retry EXCEPT !.pc = "done", !.outcome = "thrown",
                           !.thrown = <<apiError>>, !.inFlight = pending]
        ELSE [retry EXCEPT !.pc = "sleep", !.inFlight = pending,
                           !.retriedAfter = Append(@, apiError),
                           !.delays = Append(@, Delay(retry.attempt))]

\* the operation resolves before the timer: its value is returned
RetryResolve ==
    /\ retry.pc = "await"
    /\ retry' = [retry EXCEPT !.pc = "done", !.outcome = "returned",
                               !.inFlight = @ \ {retry.attempt}]
    /\ UNCHANGED <<builder, feedback, svcVars, ctlVars>>

\* the operation rejects before the timer
RetryReject ==
    /\ retry.pc = "await"
    /\ \E e \in ErrorChoices :
          RetryCatch(categorizeError(e), retry.inFlight \ {retry.attempt})
    /\ UNCHANGED <<builder, feedback, svcVars, ctlVars>>

\* the timer of withTimeout fires first: the race rejects with the timeout
\* error, the operation's own promise stays pending
RetryTimeout ==
    /\ retry.pc = "await"
    /\ RetryCatch(categorizeError(TimeoutError), retry.inFlight)
    /\ UNCHANGED <<builder, feedback, svcVars, ctlVars>>

\* the sleep is over: the next attempt
RetryWake ==
    /\ retry.pc = "sleep"
    /\ retry' = [retry EXCEPT !.pc = "loop", !.attempt = @ + 1]
    /\ UNCHANGED <<builder, feedback, svcVars, ctlVars>>

\* an operation that lost its race settles at last; nobody listens
AbandonedSettles ==
    /\ \E a \in retry.inFlight :
          /\ ~(retry.pc = "await" /\ a = retry.attempt)
          /\ retry' = [retry EXCEPT !.inFlight = @ \ {a}]
    /\ UNCHANGED <<builder, feedback, svcVars, ctlVars>>

Next ==
    \/ MakeDirs
    \/ CaptureTarget
    \/ Generate
    \/ SaveHtml
    \/ CaptureCandidate
    \/ PixelDiff
    \/ Vision
    \/ DecideSuccess
    \/ DecideCritique
    \/ DecideExhausted
    \/ Critique
    \/ Finalize

Spec == Init /\ [][Next]_vars

\* every await of the function resolves: a pending step is eventually taken
FairSpec == Spec /\ WF_vars(Next)

\* the controller's own variables while it is not the subject: one session
\* that has not begun
ControllerIdle ==
    /\ opts = [maxIterations |-> 1, pixelDiffThreshold |-> 92, visionThreshold |-> 85]
    /\ pc = "mkdir"
    /\ i = 0
    /\ iterations = <<>>
    /\ finalHTML = ""
    /\ stopReason = "max_iterations"
    /\ errorMessage = ""
    /\ html = ""
    /\ pixelDiffResult = <<>>
    /\ visionResult = <<>>
    /\ files = [f \in {} |-> ""]
    /\ calls = <<>>
    /\ summaryWrites = <<>>
    /\ fsFailed = FALSE
    /\ summaryFile = <<>>
    /\ outcome = "running"
    /\ result = <<>>

\* a PixelDiffService constructed with or without a threshold and then used
\* directly, as testPixelDiff and runFeedback do
CompareInit ==
    /\ passThreshold \in ConstructorThresholdChoices
    /\ now = 0
    /\ disk = InputImages
    /\ compareLog = <<>>
    /\ sessions = <<>>
    /\ ControllerIdle
    /\ LibIdle

CompareNext ==
    \/ Tick
    \/ SetPassThreshold
    \/ CompareImages

CompareSpec == CompareInit /\ [][CompareNext]_vars

\* two recreateWebsite calls of one process, neither given a runId, whose
\* awaits interleave; the files of the run start out absent
SessionInit ==
    /\ sessions = [s \in 1..NumSessions |->
                      [pc |-> "new", runId |-> <<>>, wrote |-> {},
                       overwrote |-> FALSE]]
    /\ now = 0
    /\ disk = [f \in {} |-> [session |-> 0, what |-> ""]]
    /\ compareLog = <<>>
    /\ passThreshold = DefaultPassThreshold
    /\ ControllerIdle
    /\ LibIdle

SessionNext ==
    \/ Tick
    \/ SessionStart
    \/ SessionSaveTarget
    \/ SessionSaveHtml
    \/ SessionSaveScreenshot
    \/ SessionSaveSummary

SessionSpec == SessionInit /\ [][SessionNext]_vars


\* formatCritiqueForRevision called with each critique
FormatInit ==
    /\ builder \in {[pc |-> "called", critique |-> c, context |-> NoContext] :
                      c \in CritiqueInputs}
    /\ feedback = [pc |-> "idle"]
    /\ retry = [pc |-> "idle"]
    /\ ServiceIdle
    /\ ControllerIdle

FormatNext == FormatCritique

FormatSpec == FormatInit /\ [][FormatNext]_vars

\* runFeedback called with each combination of its options
FeedbackInit ==
    /\ feedback \in
          {[pc |-> "compare", opts |-> o, pass |-> FALSE, score |-> 0, notes |-> "",
            mismatchPercent |-> <<>>, method |-> "", visionCritique |-> <<>>,
            visionCritiqueError |-> <<>>, compared |-> <<>>, saved |-> <<>>,
            outcome |-> "running", cause |-> "", result |-> <<>>] :
              o \in [usePixelDiff : BOOLEAN, includeVisionCritique : BOOLEAN,
                      passThreshold : PixelThresholdChoices]}
    /\ builder = [pc |-> "idle"]
    /\ retry = [pc |-> "idle"]
    /\ ServiceIdle
    /\ ControllerIdle

FeedbackNext ==
    \/ FeedbackCompare
    \/ FeedbackCritique
    \/ FeedbackSaveJson
    \/ FeedbackSaveMarkdown

FeedbackSpec == FeedbackInit /\ [][FeedbackNext]_vars

\* executeWithRetry called with the default configuration
RetryInit ==
    /\ retry = [pc |-> "loop", attempt |-> 0, invocations |-> 0, inFlight |-> {},
                retriedAfter |-> <<>>, delays |-> <<>>, outcome |-> "running",
                thrown |-> <<>>]
    /\ builder = [pc |-> "idle"]
    /\ feedback = [pc |-> "idle"]
    /\ ServiceIdle
    /\ ControllerIdle

RetryNext ==
    \/ RetryInvoke
    \/ RetryResolve
    \/ RetryReject
    \/ RetryTimeout
    \/ RetryWake
    \/ AbandonedSettles

RetrySpec == RetryInit /\ [][RetryNext]_vars

\* ------------------------------------------------------------ vocabulary
\* the function has left the try/catch (it did not die in the mkdir calls)
LoopStopped == pc \in {"finalize", "done"} /\ calls # <<>>

\* no call of the function rejected: neither a collaborator nor the file system
NoFailure == ~fsFailed /\ \A k \in 1..Len(calls) : calls[k].ok

\* iteration record r meets both gates of the session
MeetsThresholds(r) ==
    /\ r.pixelDiff.score >= opts.pixelDiffThreshold * 100
    /\ (JudgeDisabled \/ r.vision.score >= opts.visionThreshold)

CallsNamed(name) == {k \in 1..Len(calls) : calls[k].name = name}

\* ------------------------------------------------------------------ C1
\* C1: for every maxIterations = K >= 1 and whatever the collaborators do,
\* recreateWebsite terminates, neither the accumulated list nor the returned
\* result ever holds more than K iteration records, and with K = 1 and no
\* failing call the function returns success or max_iterations with exactly
\* one record.
C1_Termination ==
    /\ <>(pc = "done")
    /\ [](Len(iterations) <= opts.maxIterations)
    /\ [](result # <<>> => Len(result[1].iterations) <= opts.maxIterations)
    /\ []((pc = "done" /\ opts.maxIterations = 1 /\ NoFailure) =>
            /\ outcome = "returned"
            /\ result[1].stopReason \in {"success", "max_iterations"}
            /\ result[1].totalIterations = 1)

\* a session that used its whole budget of more than one iteration and returned
C1_Witness ==
    /\ pc = "done"
    /\ outcome = "returned"
    /\ opts.maxIterations > 1
    /\ Len(result[1].iterations) = opts.maxIterations
    /\ result[1].stopReason = "max_iterations"

C4_CritiqueFailureIsolated ==
    \A k \in CallsNamed("critique") :
        ~calls[k].ok =>
            /\ errorMessage # "critique"
            /\ Len(iterations) >= calls[k].iter
            /\ iterations[calls[k].iter].critique = <<>>

\* ------------------------------------------------------------------ C5
\* C5: the generator call of iteration 1 gets no revision context, and the
\* generator call of every iteration N > 1 gets the rendering of the critique
\* stored on the record numbered N - 1 and of nothing else.
C5_RevisionFromPrevious ==
    \A k \in CallsNamed("generate") :
        IF calls[k].iter = 1
        THEN calls[k].ctx = NoContext
        ELSE /\ Len(iterations) >= calls[k].iter - 1
             /\ iterations[calls[k].iter - 1].iteration = calls[k].iter - 1
             /\ iterations[calls[k].iter - 1].critique # <<>>
             /\ calls[k].ctx = formatCritiqueForRevision(iterations[calls[k].iter - 1].critique)

\* iteration 3 was generated after two iterations with different critiques
C5_Witness ==
    /\ \E k \in CallsNamed("generate") : calls[k].iter = 3
    /\ Len(iterations) >= 2
    /\ formatCritiqueForRevision(iterations[1].critique)
          # formatCritiqueForRevision(iterations[2].critique)

\* ------------------------------------------------------------------ C6
\* C6: when the generator, the candidate capture, the pixel comparison or the
\* judge rejects in iteration n, the stop reason is error, the rejected call is
\* the last collaborator call of the session, every call before it returned,
\* and the accumulated list and the returned result hold exactly the n - 1
\* records made before.
C6_FailureAborts ==
    \A k \in 1..Len(calls) :
        (~calls[k].ok /\ calls[k].name \in {"generate", "captureCandidate", "pixelDiff", "vision"}) =>
            /\ k = Len(calls)
            /\ \A j \in 1..(k - 1) : calls[j].ok
            /\ stopReason = "error"
            /\ errorMessage = calls[k].name
            /\ Len(iterations) = calls[k].iter - 1
            /\ \A j \in 1..Len(iterations) : iterations[j].iteration = j
            /\ (result # <<>> =>
                    /\ result[1].stopReason = "error"
                    /\ ~result[1].success
                    /\ result[1].iterations = iterations
                    /\ result[1].totalIterations = calls[k].iter - 1)

\* the pixel comparison of iteration 2 rejected and the function returned
C6_Witness ==
    /\ result # <<>>
    /\ ~calls[Len(calls)].ok
    /\ calls[Len(calls)].name = "pixelDiff"
    /\ calls[Len(calls)].iter = 2
    /\ result[1].totalIterations = 1

\* ------------------------------------------------------------------ C7
\* C7: when capturing the target fails (the capture call or the write of the
\* captured image rejects) the stop reason is error, no other collaborator is
\* ever called and the accumulated list and the returned result hold no record.
C7_TargetFailure ==
    ((calls # <<>> /\ ~calls[1].ok) \/ errorMessage = "writeTarget") =>
        /\ stopReason = "error"
        /\ Len(calls) = 1
        /\ calls[1].name = "captureTarget"
        /\ iterations = <<>>
        /\ (result # <<>> =>
                /\ result[1].stopReason = "error"
                /\ result[1].iterations = <<>>
                /\ result[1].totalIterations = 0)

\* the target capture rejected and the function returned its result
C7_Witness ==
    /\ result # <<>>
    /\ calls # <<>>
    /\ ~calls[1].ok

\* ------------------------------------------------------------------ C8
\* C8: the summary write is never started more than once; once the function
\* has ended after leaving the try/catch it was started exactly once, whatever
\* the stop reason, and the payload of the write (and the file, when written)
\* carries the stop reason and every recorded iteration.
C8_SummaryOnce ==
    /\ Len(summaryWrites) <= 1
    /\ (pc = "done" /\ calls # <<>>) => Len(summaryWrites) = 1
    /\ \A k \in 1..Len(summaryWrites) :
          /\ summaryWrites[k].stopReason = stopReason
          /\ summaryWrites[k].iterations = iterations
    /\ summaryFile # <<>> => summaryFile[1] = summaryWrites[1]

\* a session that ended in error after one recorded iteration wrote its summary
C8_Witness ==
    /\ pc = "done"
    /\ stopReason = "error"
    /\ Len(iterations) >= 1
    /\ summaryFile # <<>>
    /\ summaryFile[1].stopReason = "error"

\* ------------------------------------------------------------------ C9
\* C9: once the summary write has been attempted the function returns its
\* result, also when the write rejected, and the result carries the stop
\* reason the loop determined.
C9_SummaryFailureLogged ==
    (pc = "done" /\ summaryWrites # <<>>) =>
        /\ outcome = "returned"
        /\ result # <<>>
        /\ result[1].stopReason = stopReason

\* ----------------------------------------------------------------- C10
\* C10: when the loop has stopped with stop reason success or max_iterations,
\* index.html exists and holds the markup of the last recorded iteration,
\* which is the passing iteration on success and iteration maxIterations on
\* exhaustion.
C10_FinalMarkup ==
    (LoopStopped /\ stopReason \in {"success", "max_iterations"}) =>
        /\ iterations # <<>>
        /\ IndexHtml \in DOMAIN files
        /\ files[IndexHtml] = iterations[Len(iterations)].html
        /\ files[IndexHtml] = html
        /\ stopReason = "success" => MeetsThresholds(iterations[Len(iterations)])
        /\ stopReason = "max_iterations" =>
              iterations[Len(iterations)].iteration = opts.maxIterations

\* an exhausted session whose last two iterations produced different markup
C10_WitnessExhausted ==
    /\ pc = "done"
    /\ stopReason = "max_iterations"
    /\ Len(iterations) >= 2
    /\ iterations[Len(iterations)].html # iterations[Len(iterations) - 1].html
    /\ files[IndexHtml] = iterations[Len(iterations)].html

\* ----------------------------------------------------------------- C11
\* C11: at every point the records are numbered 1, 2, ..., n in list order;
\* the list only ever changes by one record appended at its end; and a file of
\* iteration n is first written while the loop counter is n, when no file of a
\* later iteration exists and, for n > 1, the markup, screenshot and diff
\* image of iteration n - 1 are already on disk.
C11_SequentialRecords ==
    /\ [](\A j \in 1..Len(iterations) : iterations[j].iteration = j)
    /\ [][iterations' # iterations =>
            /\ Len(iterations') = Len(iterations) + 1
            /\ SubSeq(iterations', 1, Len(iterations)) = iterations]_vars
    /\ [][\A f \in DOMAIN files' :
            (f \notin DOMAIN files /\ f.n > 0) =>
                /\ f.n = i
                /\ \A g \in DOMAIN files : g.n <= f.n
                /\ f.n > 1 =>
                      {IterationHtml(f.n - 1), IterationPng(f.n - 1), DiffPng(f.n - 1)}
                          \subseteq DOMAIN files]_vars

\* three iterations were recorded and the artifacts of all three are on disk
C11_Witness ==
    /\ Len(iterations) = 3
    /\ \A n \in 1..3 :
          {IterationHtml(n), IterationPng(n), DiffPng(n)} \subseteq DOMAIN files

\* ----------------------------------------------------------------- C12
\* C12: a record carries a critique only if it fails the gates and its number
\* is below maxIterations; every critique call was made for an iteration
\* numbered below maxIterations whose scores fail the gates.
C12_CritiqueOnlyWhenRevising ==
    /\ \A n \in 1..Len(iterations) :
          iterations[n].critique # <<>> =>
              /\ ~MeetsThresholds(iterations[n])
              /\ iterations[n].iteration < opts.maxIterations
    /\ \A k \in CallsNamed("critique") :
          /\ calls[k].iter < opts.maxIterations
          /\ IF calls[k].iter <= Len(iterations)
             THEN ~MeetsThresholds(iterations[calls[k].iter])
             ELSE /\ calls[k].iter = i
                  /\ ~(/\ pixelDiffResult[1].score >= opts.pixelDiffThreshold * 100
                       /\ visionResult[1].score >= opts.visionThreshold)

\* an exhausted session: a revised iteration with a critique, then the last
\* allowed iteration, failing and without one
C12_Witness ==
    /\ pc = "done"
    /\ Len(iterations) = opts.maxIterations
    /\ Len(iterations) >= 2
    /\ iterations[1].critique # <<>>
    /\ iterations[Len(iterations)].critique = <<>>
    /\ ~MeetsThresholds(iterations[Len(iterations)])
    /\ CallsNamed("critique") # {}

\* ------------------------------------------- vocabulary of the call log
\* the logged compareImages calls that returned a result
Returned == {k \in 1..Len(compareLog) : compareLog[k].error = ""}

ResultOf(k) == compareLog[k].result[1]

\* the two images of logged call e differ in width or height
DimensionsDiffer(e) ==
    \/ InputImages[e.target].width # InputImages[e.candidate].width
    \/ InputImages[e.target].height # InputImages[e.candidate].height

Abs(x) == IF x >= 0 THEN x ELSE 0 - x

\* ----------------------------------------------------------------- C13
\* C13: in every result compareImages returns, pass is true exactly when the
\* returned score is at least the threshold the service was configured with.
C13_PassIffReportedScore ==
    \A k \in Returned :
        ResultOf(k).pass <=> (ResultOf(k).score >= compareLog[k].threshold * 100)

C15_DimensionMismatch ==
    [][(/\ compareLog' # compareLog
        /\ DimensionsDiffer(compareLog'[Len(compareLog')])) =>
           /\ compareLog'[Len(compareLog')].error = "dimension"
           /\ compareLog'[Len(compareLog')].result = <<>>
           /\ compareLog'[Len(compareLog')].wrote = {}
           /\ disk' = disk]_vars

\* a call on a wider candidate failed after an earlier call had saved its diff
C15_Witness ==
    /\ Len(compareLog) = 2
    /\ compareLog[1].error = ""
    /\ DimensionsDiffer(compareLog[2])
    /\ compareLog[2].error = "dimension"
    /\ DOMAIN disk = DOMAIN InputImages \cup compareLog[1].wrote

C17_IdenticalImages ==
    \A k \in Returned :
        InputImages[compareLog[k].target] = InputImages[compareLog[k].candidate] =>
            /\ ResultOf(k).mismatchPixels = 0
            /\ ResultOf(k).mismatchPercent = 0
            /\ ResultOf(k).score = 10000
            /\ ResultOf(k).pass
            /\ ResultOf(k).notes.tier = "perfect"
            /\ ResultOf(k).notes.status

\* identical images compared under the strictest threshold, 100
C17_Witness ==
    \E k \in Returned :
        /\ InputImages[compareLog[k].target] = InputImages[compareLog[k].candidate]
        /\ compareLog[k].threshold = 100
        /\ ResultOf(k).pass

C19_FreshDiffPath ==
    \A k \in Returned :
        /\ Cardinality(compareLog[k].wrote) = 1
        /\ compareLog[k].fresh
        /\ disk[compareLog[k].target] = InputImages[compareLog[k].target]
        /\ disk[compareLog[k].candidate] = InputImages[compareLog[k].candidate]

\* ----------------------------------------------------------------- C20
\* C20: any two sessions that have begun hold different run ids and have
\* written disjoint sets of paths, and no step of a session has replaced a
\* file another session had written.
C20_DisjointSessions ==
    \A s, t \in DOMAIN sessions :
        (s # t /\ sessions[s].runId # <<>> /\ sessions[t].runId # <<>>) =>
            /\ sessions[s].runId # sessions[t].runId
            /\ sessions[s].wrote \cap sessions[t].wrote = {}
            /\ ~sessions[s].overwrote

C22_CritiqueFailureIsolated ==
    /\ [][feedback.pc = "critique" =>
            /\ feedback'.pc = "saveJson"
            /\ feedback'.outcome = "running"
            /\ feedback'.pass = feedback.pass
            /\ feedback'.score = feedback.score
            /\ feedback'.mismatchPercent = feedback.mismatchPercent
            /\ (feedback'.visionCritique = <<>>) # (feedback'.visionCritiqueError = <<>>)
       ]_vars
    /\ [](feedback.pc = "done" =>
            /\ feedback.outcome = "thrown" =>
                  feedback.cause \in {"compare", "writeJson", "writeMarkdown"}
            /\ feedback.outcome = "returned" =>
                  /\ feedback.result[1].pass = feedback.compared[1].pass
                  /\ feedback.result[1].score = feedback.compared[1].score
                  /\ feedback.result[1].mismatchPercent
                        = feedback.compared[1].mismatchPercent
                  /\ feedback.saved[1].pass = feedback.compared[1].pass
                  /\ feedback.saved[1].score = feedback.compared[1].score
                  /\ ~feedback.opts.includeVisionCritique =>
                        /\ feedback.result[1].visionCritique = <<>>
                        /\ feedback.result[1].visionCritiqueError = <<>>
                  /\ feedback.result[1].visionCritiqueError # <<>> =>
                        feedback.result[1].visionCritique = <<>>)

\* a pixel comparison that passed, a critique call that was rejected, and the
\* result returned all the same
C22_Witness ==
    /\ feedback.pc = "done"
    /\ feedback.outcome = "returned"
    /\ feedback.opts.includeVisionCritique
    /\ feedback.opts.usePixelDiff
    /\ feedback.result[1].pass
    /\ feedback.result[1].visionCritique = <<>>
    /\ feedback.result[1].visionCritiqueError # <<>>

\* ----------------------------------------------------------------- C23
\* C23: with the default configuration executeWithRetry calls the wrapped
\* operation at most 3 times, starts a retry only after an error categorised
\* as retryable (network, rate limit, timeout or server error), and ends by
\* returning or by throwing an APIError.
C23_AtMostThreeInvocations ==
    /\ retry.invocations <= 3
    /\ \A k \in 1..Len(retry.retriedAfter) :
          /\ retry.retriedAfter[k].retryable
          /\ retry.retriedAfter[k].category \in
                {"NETWORK", "RATE_LIMIT", "TIMEOUT", "SERVER_ERROR"}
    /\ retry.pc = "done" =>
          \/ retry.outcome = "returned"
          \/ retry.outcome = "thrown" /\ retry.thrown[1].isAPIError

\* ----------------------------------------------------------------- C30
\* C30: during an executeWithRetry call at most one invocation of the wrapped
\* operation is pending at any time.
C30_OneInFlight == Cardinality(retry.inFlight) <= 1

\* ------------------------------------- vocabulary of the returned result
Returns == pc = "done" /\ outcome = "returned"

\* the iteration numbers that have a file of their own
IterationsWithArtifacts ==
    {f.n : f \in {g \in DOMAIN files :
                     g.kind \in {"iteration.html", "iteration.png", "diff.png"}}}

RecordedIterations(its) == {its[k].iteration : k \in 1..Len(its)}

\* call b is the step that follows call a in the session
FollowsInOrder(a, b) ==
    \/ a.name = "captureTarget" /\ b.name = "generate" /\ b.iter = 1
    \/ a.name = "generate" /\ b.name = "captureCandidate" /\ b.iter = a.iter
    \/ a.name = "captureCandidate" /\ b.name = "pixelDiff" /\ b.iter = a.iter
    \/ a.name = "pixelDiff" /\ b.name = "vision" /\ b.iter = a.iter
    \/ a.name = "vision" /\ b.name = "critique" /\ b.iter = a.iter
    \/ a.name = "critique" /\ b.name = "generate" /\ b.iter = a.iter + 1

\* ----------------------------------------------------------------- C24
\* C24: when recreateWebsite has returned, every iteration number for which an
\* iteration markup file, a candidate screenshot or a diff image was written
\* has a record in the returned result and in the summary.
C24_ArtifactsHaveRecords ==
    Returns =>
        /\ IterationsWithArtifacts \subseteq RecordedIterations(result[1].iterations)
        /\ IterationsWithArtifacts \subseteq RecordedIterations(summaryFile[1].iterations)

\* ----------------------------------------------------------------- C25
\* C25: the collaborator calls of a session are made one after another, each
\* after the one before it has returned: the first is the only target capture,
\* then in every iteration the generation, the candidate capture, the pixel
\* comparison and the judge in this order, then the critique if there is one,
\* then the generation of the next iteration; an iteration is recorded only
\* after its judge call has returned.
C25_StepsInOrder ==
    /\ calls # <<>> => calls[1].name = "captureTarget"
    /\ Cardinality(CallsNamed("captureTarget")) <= 1
    /\ \A k \in 1..(Len(calls) - 1) :
          /\ calls[k].ok
          /\ FollowsInOrder(calls[k], calls[k + 1])
    /\ \A n \in 1..Len(iterations) :
          \E k \in CallsNamed("vision") :
              calls[k].iter = iterations[n].iteration /\ calls[k].ok

\* a session of two full iterations: ten calls, the critique of iteration 1
\* right before the generation of iteration 2
C25_Witness ==
    /\ pc = "done"
    /\ Len(iterations) = 2
    /\ Len(calls) = 10
    /\ calls[6].name = "critique"
    /\ calls[7].name = "generate"
    /\ calls[7].iter = 2
    /\ calls[10].name = "vision"

\* ----------------------------------------------------------------- C26
\* C26: in every iteration record the pixelDiff.pass flag is true exactly when
\* pixelDiff.score is at least the session's pixelDiffThreshold.
C26_RecordedPassIsGate ==
    \A n \in 1..Len(iterations) :
        iterations[n].pixelDiff.pass
            <=> (iterations[n].pixelDiff.score >= opts.pixelDiffThreshold * 100)

C28_IndexIsFinalHTML ==
    (Returns /\ IndexHtml \in DOMAIN files) =>
        files[IndexHtml] = result[1].finalHTML

====
